---- MODULE Spec2Model ----
(***************************************************************************)
(* Model of smithay-wallpaper (src/src/lib.rs).                            *)
(*                                                                         *)
(* Two components, which share no state and are therefore given one        *)
(* specification each:                                                     *)
(*   SpecIds : the process-wide id registry (WALLPAPER_ID, WALLPAPER_IDS,  *)
(*             next_id) used by several host threads constructing          *)
(*             WallpaperState values;                                      *)
(*   Spec    : one WallpaperState driven by its (single) render thread,    *)
(*             the background decode threads spawned by set(), and the     *)
(*             WallpaperFrame snapshots produced by run().                 *)
(***************************************************************************)
EXTENDS Integers, FiniteSets, Sequences, TLC

\* ------------------------------------------------------------------ bounds
\* width in bits of the modelled usize (WALLPAPER_ID wraps modulo 2^UsizeBits)
UsizeBits == 2
\* number of host threads that construct a WallpaperState
NThreads == 5
\* number of set() calls (background decode threads) in one run
MaxTasks == 2
\* number of WallpaperFrame values the host holds at the same time
MaxFrames == 2

RECURSIVE Pow2(_)
Pow2(n) == IF n = 0 THEN 1 ELSE 2 * Pow2(n - 1)

\* usize::MAX + 1
UsizeModulus == Pow2(UsizeBits)
\* usize::MAX
USIZE_MAX == UsizeModulus - 1

Threads == 1..NThreads
None == 0

VARIABLES
    \* -------- id registry (lib.rs:41-58) and the constructing threads
    WALLPAPER_ID,      \* static AtomicUsize
    WALLPAPER_IDS,     \* the HashSet<usize> behind the Mutex
    lockHolder,        \* thread holding the WALLPAPER_IDS mutex, or None
    poisoned,          \* the mutex is poisoned (a holder panicked)
    debugBuild,        \* debug_assert! is compiled in (build configuration)
    tpc,               \* tpc[t]: position of thread t in its constructor
    lid,               \* lid[t]: the local `id` of next_id in thread t
    ctor,              \* ctor[t]: "new" | "default" | "none"
    cid,               \* cid[t]: WallpaperState.id of the container built by t
    \* -------- one WallpaperState and its render thread (lib.rs:60-204)
    join,              \* self.join : tracked task, or None
    image,             \* self.image: generation (task that decoded it), or None
    texture,           \* self.texture: <<generation, size>> uploaded, or <<>>
    tasks,             \* tasks[k]: the k-th thread spawned by set()
    doneOrder,         \* task ids in the order in which the threads ended
    frames,            \* WallpaperFrame values the host holds
    uploads,           \* uploads[g]: import_bitmap calls made on generation g
    op,                \* the last operation of the render thread and its outcome
    panicked           \* the render thread panicked

idVars == <<WALLPAPER_ID, WALLPAPER_IDS, lockHolder, poisoned, debugBuild,
            tpc, lid, ctor, cid>>
stVars == <<join, image, texture, tasks, doneOrder, frames, uploads, op, panicked>>
vars == <<WALLPAPER_ID, WALLPAPER_IDS, lockHolder, poisoned, debugBuild,
          tpc, lid, ctor, cid,
          join, image, texture, tasks, doneOrder, frames, uploads, op, panicked>>

\* ------------------------------------------------------------ id registry

\* AtomicUsize::fetch_add(1): the new value of the counter (wrapping)
FetchAddMutStuck(c) == c
FetchAdd(c) == (c + 1) % UsizeModulus

\* WALLPAPER_IDS.lock().unwrap(): blocks while held, panics when poisoned
Lock(t) ==
    /\ tpc[t] = "lock"
    /\ lockHolder = None
    /\ IF poisoned
       THEN /\ tpc' = [tpc EXCEPT ![t] = "panicked"]
            /\ UNCHANGED lockHolder
       ELSE /\ tpc' = [tpc EXCEPT ![t] = "fetch"]
            /\ lockHolder' = t
    /\ UNCHANGED <<WALLPAPER_ID, WALLPAPER_IDS, poisoned, debugBuild, lid, ctor, cid>>

\* debug_assert!(ids.len() != usize::MAX); let mut id = WALLPAPER_ID.fetch_add(1)
\* A panic of the assertion unwinds through the guard and poisons the mutex.
Fetch(t) ==
    /\ tpc[t] = "fetch"
    /\ IF debugBuild /\ Cardinality(WALLPAPER_IDS) = USIZE_MAX
       THEN /\ tpc' = [tpc EXCEPT ![t] = "panicked"]
            /\ lockHolder' = None
            /\ poisoned' = TRUE
            /\ UNCHANGED <<WALLPAPER_ID, lid>>
       ELSE /\ lid' = [lid EXCEPT ![t] = WALLPAPER_ID]
            /\ WALLPAPER_ID' = FetchAdd(WALLPAPER_ID)
            /\ tpc' = [tpc EXCEPT ![t] = "loop"]
            /\ UNCHANGED <<lockHolder, poisoned>>
    /\ UNCHANGED <<WALLPAPER_IDS, debugBuild, ctor, cid>>

\* while ids.iter().any(|k| *k == id) { id = WALLPAPER_ID.fetch_add(1) }
LoopMutNoCheck(t) ==
    /\ tpc[t] = "loop"
    /\ tpc' = [tpc EXCEPT ![t] = "insert"]
    /\ UNCHANGED <<WALLPAPER_ID, lid>>
    /\ UNCHANGED <<WALLPAPER_IDS, lockHolder, poisoned, debugBuild, ctor, cid>>
Loop(t) ==
    /\ tpc[t] = "loop"
    /\ IF lid[t] \in WALLPAPER_IDS
       THEN /\ lid' = [lid EXCEPT ![t] = WALLPAPER_ID]
            /\ WALLPAPER_ID' = FetchAdd(WALLPAPER_ID)
            /\ UNCHANGED tpc
       ELSE /\ tpc' = [tpc EXCEPT ![t] = "insert"]
            /\ UNCHANGED <<WALLPAPER_ID, lid>>
    /\ UNCHANGED <<WALLPAPER_IDS, lockHolder, poisoned, debugBuild, ctor, cid>>

\* ids.insert(id); id   -- the guard is dropped on return, and
\* WallpaperState::new stores the id: Self { id: next_id(), ..Default::default() }
Insert(t) ==
    /\ tpc[t] = "insert"
    /\ WALLPAPER_IDS' = WALLPAPER_IDS \cup {lid[t]}
    /\ lockHolder' = None
    /\ cid' = [cid EXCEPT ![t] = lid[t]]
    /\ tpc' = [tpc EXCEPT ![t] = "done"]
    /\ UNCHANGED <<WALLPAPER_ID, poisoned, debugBuild, lid, ctor>>

\* WallpaperState::new() is entered: next_id() is called
New(t) ==
    /\ tpc[t] = "idle"
    /\ tpc' = [tpc EXCEPT ![t] = "lock"]
    /\ ctor' = [ctor EXCEPT ![t] = "new"]
    /\ UNCHANGED <<WALLPAPER_ID, WALLPAPER_IDS, lockHolder, poisoned, debugBuild, lid, cid>>

\* #[derive(Default)] on the public struct: WallpaperState::default() sets
\* id = usize::default() = 0 and does not touch the registry
Default(t) ==
    /\ tpc[t] = "idle"
    /\ tpc' = [tpc EXCEPT ![t] = "done"]
    /\ ctor' = [ctor EXCEPT ![t] = "default"]
    /\ cid' = [cid EXCEPT ![t] = 0]
    /\ UNCHANGED <<WALLPAPER_ID, WALLPAPER_IDS, lockHolder, poisoned, debugBuild, lid>>

\* ------------------------------------------------- one WallpaperState

\* the thread that owns the WallpaperState of Spec (Rc makes it !Send)
Host == 1
\* two distinct target buffer sizes the host passes to run()
Sizes == {1, 2}
\* size.to_logical(1): Size<i32, Physical> -> Size<i32, Logical>
ToLogical(s, scale) == s \div scale
\* the area the host passes to run() with a buffer of size s:
\* Rectangle::from_loc_and_size((0, 0), size.to_logical(1)), the whole window
\* (a rectangle at (0, 0) is modelled by its extent)
AreaOf(s) == ToLogical(s, 1)
Areas == {AreaOf(s) : s \in Sizes}
Gens == 1..MaxTasks
NoTexture == <<>>
NoOp == [name |-> "new", img |-> None, size |-> 0, poll |-> "-",
         upload |-> "-", quad |-> FALSE, tex |-> NoTexture, render |-> "-",
         result |-> "-"]

\* image::open(path) in the spawned thread: ImageResult<DynamicImage>, or the
\* thread panics (JoinHandle::join then returns Err)
DecodeOutcomes(path) == IF path = "good" THEN {"ok"} ELSE {"err", "panic"}

\* tools::import_bitmap(r, &image.to_rgba8(), size): a Result (it is unwrapped)
ImportBitmapOutcomes == {"ok", "fail"}

\* Frame::render_texture_at(..) -> Result<(), Gles2Error>
RenderTextureOutcomes == {"ok", "err"}

\* pub fn set: self.join = Some(thread::spawn(move || image::open(path)))
\* The JoinHandle that was in self.join is dropped: its thread is detached.
SetJoinMutKeepPending(new) == IF join # None THEN join ELSE new
SetJoin(new) == new

Set(path) ==
    /\ ~panicked
    /\ Len(tasks) < MaxTasks
    /\ LET new == Len(tasks) + 1
           kept == SetJoin(new)
           old == [k \in DOMAIN tasks |->
                     IF k = join /\ kept # k
                     THEN [tasks[k] EXCEPT !.handle = "dropped"]
                     ELSE tasks[k]]
       IN /\ tasks' = Append(old, [path |-> path, st |-> "running",
                                   handle |-> IF kept = new THEN "tracked" ELSE "dropped"])
          /\ join' = kept
    /\ op' = [NoOp EXCEPT !.name = "set"]
    /\ UNCHANGED <<image, texture, doneOrder, frames, uploads, panicked>>

\* the spawned thread ends: image::open returned, or panicked
Finish(k) ==
    /\ ~panicked
    /\ k \in DOMAIN tasks
    /\ tasks[k].st = "running"
    /\ \E r \in DecodeOutcomes(tasks[k].path) :
          tasks' = [tasks EXCEPT ![k].st = r]
    /\ doneOrder' = Append(doneOrder, k)
    /\ UNCHANGED <<join, image, texture, frames, uploads, op, panicked>>

\* join.is_running()
IsRunningMutNever(k) == FALSE
IsRunning(k) == tasks[k].st = "running"

\* if let Ok(Ok(image)) = join.join() { self.image = Rc::new(Some(image)) }
\* else { println!("error loading image") }
JoinedImageMutClearOnError(k) == IF tasks[k].st = "ok" THEN k ELSE None
JoinedImage(k) == IF tasks[k].st = "ok" THEN k ELSE image

\* fn check(&mut self): the values of (join, image, poll outcome) after it
Check ==
    IF join = None
    THEN [join |-> None, image |-> image, poll |-> "none"]
    ELSE IF ~IsRunning(join)
         THEN [join |-> None, image |-> JoinedImage(join),
               poll |-> IF tasks[join].st = "ok" THEN "installed" ELSE "failed"]
         ELSE [join |-> join, image |-> image, poll |-> "running"]

\* WallpaperFrame { state_id, area, size, image: self.image.clone(),
\*                  texture: self.texture.clone() }
\* The texture field is the shared Rc<RefCell<..>>: every frame reads and
\* writes the one slot `texture`.
WallpaperFrameMutStaleImage(c, area, size) ==
    [state_id |-> cid[Host], area |-> area, size |-> size, image |-> image]
WallpaperFrame(c, area, size) ==
    [state_id |-> cid[Host], area |-> area, size |-> size, image |-> c.image]

\* self.image = Rc::new(Some(image)) gives the container a new Rc: the frames
\* the host holds keep their clones of the earlier Rc, whose value is never
\* written.  c is the result of check.
HeldFramesMutSharedCell(c) == {[g EXCEPT !.image = c.image] : g \in frames}
HeldFrames(c) == frames

\* area.to_physical(1): Rectangle<i32, Logical> -> Rectangle<i32, Physical>
ToPhysical(a, scale) == a * scale

\* pub fn run(&mut self, area, size) -> WallpaperFrame
Run(area, size) ==
    /\ ~panicked
    /\ LET c == Check
           f == WallpaperFrame(c, ToPhysical(area, 1), size)
       IN /\ f \in frames \/ Cardinality(frames) < MaxFrames
          /\ join' = c.join
          /\ image' = c.image
          /\ tasks' = [k \in DOMAIN tasks |->
                         IF k = join /\ c.join = None
                         THEN [tasks[k] EXCEPT !.handle = "joined"]
                         ELSE tasks[k]]
          /\ frames' = HeldFrames(c) \cup {f}
          /\ op' = [NoOp EXCEPT !.name = "run", !.img = f.image, !.size = size,
                                !.poll = c.poll]
    /\ UNCHANGED <<texture, doneOrder, uploads, panicked>>

\* fn accumulated_damage(&self, _for_values) -> Vec<Rectangle>: vec![]
accumulated_damage(f) == {}

\* fn geometry(&self): Rectangle::from_loc_and_size((0, 0), (0, 0)), by its extent
geometry(f) == 0

\* fn z_index(&self) -> u8
z_index(f) == 0

\* the host drops a WallpaperFrame it holds
DropFrame(f) ==
    /\ ~panicked
    /\ f \in frames
    /\ frames' = frames \ {f}
    /\ op' = [NoOp EXCEPT !.name = "drop"]
    /\ UNCHANGED <<join, image, texture, tasks, doneOrder, uploads, panicked>>

\* if let Some(image) = &*self.image
HasImageMutAlways(f) == TRUE
HasImage(f) == f.image # None

\* if let Some(cached_texture) = &*cached_texture
IsCachedMutNever(f) == FALSE
IsCachedMutSizeKeyed(f) == texture # NoTexture /\ texture[2] = f.size
IsCached(f) == texture # NoTexture

\* the tail expression of WallpaperFrame::draw: the Result of
\* frame.render_texture_at(..) is the Result of draw
Propagate(r) == r

\* RenderElement::draw: if let Err(err) = WallpaperFrame::draw(..) {
\*     slog::error!(..) }  Ok(())
LogAndOk(r) == "ok"

\* what operation `name` returns to the host when WallpaperFrame::draw
\* returns r
Ret(name, r) == IF name = "element_draw" THEN LogAndOk(r) ELSE Propagate(r)

\* the body of WallpaperFrame::draw, run for the operation `name` the host
\* called
DrawCall(f, name) ==
    /\ ~panicked
    /\ f \in frames
    /\ IF ~HasImage(f)
       THEN \* Ok(())
            /\ op' = [NoOp EXCEPT !.name = name, !.img = f.image, !.size = f.size,
                                  !.upload = "none", !.result = Ret(name, "ok")]
            /\ UNCHANGED <<texture, uploads, panicked>>
       ELSE IF IsCached(f)
       THEN \* texture = cached_texture.clone(); frame.render_texture_at(&texture, ..)
            /\ \E r \in RenderTextureOutcomes :
                  op' = [NoOp EXCEPT !.name = name, !.img = f.image, !.size = f.size,
                                     !.upload = "none", !.quad = TRUE,
                                     !.tex = texture, !.render = r,
                                     !.result = Ret(name, r)]
            /\ UNCHANGED <<texture, uploads, panicked>>
       ELSE \* *cached_texture = Some(tools::import_bitmap(..).unwrap())
            /\ uploads' = [uploads EXCEPT ![f.image] = @ + 1]
            /\ \E u \in ImportBitmapOutcomes :
                  IF u = "fail"
                  THEN \* unwrap() of the Err panics before the slot is assigned
                       /\ panicked' = TRUE
                       /\ op' = [NoOp EXCEPT !.name = name, !.img = f.image,
                                             !.size = f.size, !.upload = "fail",
                                             !.result = "panic"]
                       /\ UNCHANGED texture
                  ELSE /\ texture' = <<f.image, f.size>>
                       /\ \E r \in RenderTextureOutcomes :
                             op' = [NoOp EXCEPT !.name = name, !.img = f.image,
                                                !.size = f.size, !.upload = "ok",
                                                !.quad = TRUE, !.tex = texture',
                                                !.render = r, !.result = Ret(name, r)]
                       /\ UNCHANGED panicked
    /\ UNCHANGED <<join, image, tasks, doneOrder, frames>>

\* pub fn draw(&self, r, frame) -> Result<(), Gles2Error>
Draw(f) == DrawCall(f, "draw")

\* impl RenderElement for WallpaperFrame: fn draw(&self, renderer, frame,
\* _scale, _damage, log) -> Result<(), Gles2Error>
ElementDraw(f) == DrawCall(f, "element_draw")

InitIds ==
    /\ WALLPAPER_ID = 0
    /\ WALLPAPER_IDS = {}
    /\ lockHolder = None
    /\ poisoned = FALSE
    /\ debugBuild \in BOOLEAN
    /\ tpc = [t \in Threads |-> "idle"]
    /\ lid = [t \in Threads |-> 0]
    /\ ctor = [t \in Threads |-> "none"]
    /\ cid = [t \in Threads |-> -1]

InitState ==
    /\ join = None
    /\ image = None
    /\ texture = NoTexture
    /\ tasks = <<>>
    /\ doneOrder = <<>>
    /\ frames = {}
    /\ uploads = [g \in 0..MaxTasks |-> 0]
    /\ op = NoOp
    /\ panicked = FALSE

\* no container has been constructed yet
Init == InitIds /\ InitState

\* the Host thread has constructed its container with WallpaperState::new()
\* (example/integrate.rs:34): next_id() returned 0 from the fresh registry.
\* No operation of the container reads debugBuild.
InitNew ==
    /\ WALLPAPER_ID = 1
    /\ WALLPAPER_IDS = {0}
    /\ lockHolder = None
    /\ poisoned = FALSE
    /\ debugBuild = FALSE
    /\ tpc = [t \in Threads |-> IF t = Host THEN "done" ELSE "idle"]
    /\ lid = [t \in Threads |-> 0]
    /\ ctor = [t \in Threads |-> IF t = Host THEN "new" ELSE "none"]
    /\ cid = [t \in Threads |-> IF t = Host THEN 0 ELSE -1]
    /\ InitState

NextIds ==
    \/ \E t \in Threads : New(t) /\ UNCHANGED stVars
    \/ \E t \in Threads : Default(t) /\ UNCHANGED stVars
    \/ \E t \in Threads : Lock(t) /\ UNCHANGED stVars
    \/ \E t \in Threads : Fetch(t) /\ UNCHANGED stVars
    \/ \E t \in Threads : Loop(t) /\ UNCHANGED stVars
    \/ \E t \in Threads : Insert(t) /\ UNCHANGED stVars

SpecIds == Init /\ [][NextIds]_vars

\* a step of thread t inside next_id
IdStep(t) == (Lock(t) \/ Fetch(t) \/ Loop(t) \/ Insert(t)) /\ UNCHANGED stVars

\* the threads are scheduled fairly: a thread that can take its next step of
\* next_id eventually takes it
FairSpecIds == SpecIds /\ \A t \in Threads : WF_vars(IdStep(t))

Next ==
    \/ \E p \in {"good", "bad"} : Set(p) /\ UNCHANGED idVars
    \/ \E k \in Gens : Finish(k) /\ UNCHANGED idVars
    \/ \E s \in Sizes : Run(AreaOf(s), s) /\ UNCHANGED idVars
    \/ \E f \in frames : Draw(f) /\ UNCHANGED idVars
    \/ \E f \in frames : ElementDraw(f) /\ UNCHANGED idVars
    \/ \E f \in frames : DropFrame(f) /\ UNCHANGED idVars

Spec == InitNew /\ [][Next]_vars

\* ------------------------------------------------------------------ claims

TypeOK ==
    /\ join \in {None} \cup DOMAIN tasks
    /\ image \in {None} \cup DOMAIN tasks
    /\ Len(tasks) <= MaxTasks
    /\ Cardinality(frames) <= MaxFrames


\* C1: the ids of the containers constructed by WallpaperState::new from
\* several threads, in any interleaving of the steps of next_id, are pairwise
\* distinct, and the check-then-insert of next_id is never interleaved with
\* another thread's (at most one thread is between its lock and its insert).
C1_IdsPairwiseDistinct ==
    /\ \A s, t \in Threads :
          (s # t /\ ctor[s] = "new" /\ ctor[t] = "new"
             /\ tpc[s] = "done" /\ tpc[t] = "done") => cid[s] # cid[t]
    /\ Cardinality({t \in Threads : tpc[t] \in {"fetch", "loop", "insert"}}) <= 1
    /\ \A t \in Threads : tpc[t] \in {"fetch", "loop", "insert"} => lockHolder = t

\* C1 witness: every value of the counter has been handed out once, to
\* containers built by different threads, and the counter has wrapped
C1_Witness ==
    /\ Cardinality({t \in Threads : ctor[t] = "new" /\ tpc[t] = "done"}) = UsizeModulus
    /\ WALLPAPER_ID = 0


\* C2: a poll that finds the tracked task ended with a decode error, or
\* panicked, leaves self.image as it was, does not panic, and the frame that
\* run returns references the image that was current before the poll.
C2_FailedReloadKeepsImage ==
    [][\A a \in Areas, s \in Sizes :
         (Run(a, s) /\ join # None /\ tasks[join].st \in {"err", "panic"})
            => /\ image' = image
               /\ ~panicked'
               /\ op'.poll = "failed"
               /\ op'.img = image
               /\ \E f \in frames' : f.size = s /\ f.image = image]_vars

\* C2 witness: a poll has just failed while an earlier image is current
C2_Witness ==
    /\ op.name = "run"
    /\ op.poll = "failed"
    /\ image # None
    /\ op.img = image

\* C3: a load whose handle was replaced by a later set() before a poll saw it
\* finished never becomes the current image nor the image of a frame; and
\* once the last requested load has been polled as finished with success, the
\* current image is its result.
C3_LastRequestWins ==
    /\ \A a \in DOMAIN tasks :
          tasks[a].handle = "dropped"
             => /\ image # a
                /\ \A f \in frames : f.image # a
    /\ (tasks # <<>> /\ join = None /\ tasks[Len(tasks)].st = "ok")
          => image = Len(tasks)

\* C3 witness: A was replaced by B while running, B ended first, then A, both
\* with success, and the poll installed B
C3_Witness ==
    /\ Len(tasks) = 2
    /\ tasks[1].handle = "dropped"
    /\ doneOrder = <<2, 1>>
    /\ tasks[1].st = "ok"
    /\ tasks[2].st = "ok"
    /\ join = None
    /\ image = 2

\* C4: the draws of the frames that reference one decoded image perform
\* exactly one import_bitmap between them (stated after each draw of a frame
\* that holds an image).
C4_ExactlyOneUploadPerImage ==
    (op.name = "draw" /\ op.img # None) => uploads[op.img] = 1

\* C5: after a draw of a frame that references the current image, the slot
\* holds a texture uploaded from that image (a texture of an earlier image has
\* been replaced).
C5_TextureInvalidatedOnNewImage ==
    (op.name = "draw" /\ op.img # None /\ op.img = image /\ op.result # "panic")
       => (texture # NoTexture /\ texture[1] = image)

\* C6: when import_bitmap fails during a draw, draw returns an error value,
\* the thread does not panic, and the slot stays empty.
C6_UploadFailureIsReturned ==
    (op.name = "draw" /\ op.upload = "fail")
       => (op.result = "err" /\ ~panicked /\ texture = NoTexture)

\* C7: the frame that run returns reports damage exactly when the poll of
\* that run installed a newly decoded image.
C7_DamageExactlyOnNewImage ==
    [][\A a \in Areas, s \in Sizes :
         Run(a, s) =>
            LET f == CHOOSE g \in frames' :
                        g.area = ToPhysical(a, 1) /\ g.size = s /\ g.image = image'
            IN (accumulated_damage(f) # {}) <=> (image' # image)]_vars

\* the load that ended last among the ended loads in S with a decoded image
MostRecentOk(S) ==
    LET I == {i \in DOMAIN doneOrder :
                 doneOrder[i] \in S /\ tasks[doneOrder[i]].st = "ok"}
    IN IF I = {} THEN None
       ELSE doneOrder[CHOOSE i \in I : \A j \in I : j <= i]

\* C8 as stated: the frame that run returns references the image of the
\* successful load that completed most recently as of the call.
C8_FrameShowsMostRecentCompleted ==
    [][\A a \in Areas, s \in Sizes :
         Run(a, s) => op'.img = MostRecentOk(DOMAIN tasks)]_vars

\* C8 amended: the frame that run returns references the image of the
\* successful load that completed most recently among the loads whose handle
\* was not replaced by a later set() before a poll saw them finished.
C8_FrameShowsMostRecentNotSuperseded ==
    [][\A a \in Areas, s \in Sizes :
         Run(a, s) => /\ op'.img = MostRecentOk({k \in DOMAIN tasks :
                                                tasks[k].handle # "dropped"})
                   /\ \E f \in frames' : f.size = s /\ f.image = op'.img]_vars

\* C8 witness: run has returned the image of B although the superseded load A
\* completed, with success, after B
C8_Witness ==
    /\ op.name = "run"
    /\ op.img = 2
    /\ doneOrder = <<2, 1>>
    /\ tasks[1].st = "ok"
    /\ tasks[1].handle = "dropped"

\* C9 (its final result): once the last requested load has decoded and been
\* polled, a draw of a frame of that image that returns Ok has made exactly
\* one upload of that image in all.
C9_LoadedImageDrawnWithOneUpload ==
    (/\ op.name = "draw"
     /\ op.result = "ok"
     /\ join = None
     /\ op.img # None
     /\ op.img = Len(tasks)
     /\ op.img = image)
       => uploads[image] = 1

\* C10: a draw of a frame without image returns Ok, uploads nothing, issues
\* no quad and changes neither the slot nor the thread's health; and the
\* slot of a container that never had a successful load is empty.
C10_DrawWithoutImageIsNoOp ==
    /\ [](image = None => texture = NoTexture /\ \A g \in DOMAIN uploads : uploads[g] = 0)
    /\ [][\A f \in frames :
            (Draw(f) /\ f.image = None)
               => /\ op'.result = "ok"
                  /\ op'.upload = "none"
                  /\ ~op'.quad
                  /\ texture' = texture
                  /\ uploads' = uploads
                  /\ ~panicked']_vars

\* C10 witness: a frame of a container that never loaded has been drawn
C10_Witness ==
    /\ op.name = "draw"
    /\ op.img = None
    /\ op.result = "ok"
    /\ image = None
    /\ tasks # <<>>


\* C11: a frame the host holds keeps the image it was produced with when a
\* later run installs a newer image (the new frame references the new image),
\* and a draw of any frame that has an image uses the texture that is in the
\* shared slot, whichever frame's draw uploaded it.
C11_SnapshotIsolation ==
    [][/\ \A a \in Areas, s \in Sizes :
             Run(a, s) => /\ frames \subseteq frames'
                          /\ \E g \in frames' : g.image = image' /\ g.size = s
       /\ (\E f \in frames : DropFrame(f)) \/ frames \subseteq frames'
       /\ \A f \in frames :
             ((Draw(f) \/ ElementDraw(f)) /\ f.image # None /\ texture # NoTexture)
                => (op'.tex = texture /\ op'.upload = "none")]_vars

\* C11 witness: the host still holds a frame of image 1 after image 2 became
\* current, and its draw has rendered the texture uploaded through a frame of
\* image 2
C11_Witness ==
    /\ image = 2
    /\ \E f \in frames : f.image = 1
    /\ texture # NoTexture
    /\ texture[1] = 2
    /\ op.name = "draw"
    /\ op.img = 1
    /\ op.tex = texture

\* C12: a run whose poll finds the tracked task still running completes
\* while the task is still running, leaves the image unchanged and keeps
\* tracking the same task.
C12_PollOfRunningTaskKeepsTracking ==
    [][\A a \in Areas, s \in Sizes :
         (Run(a, s) /\ join # None /\ tasks[join].st = "running")
            => /\ image' = image
               /\ join' = join
               /\ tasks' = tasks
               /\ op'.poll = "running"
               /\ op'.img = image]_vars

\* C12 witness: a run has polled the second load while it was running and
\* returned a frame of the image that was current
C12_Witness ==
    /\ op.name = "run"
    /\ op.poll = "running"
    /\ join = 2
    /\ tasks[2].st = "running"
    /\ image = 1
    /\ op.img = 1

\* C13: when render_texture_at fails, the draw operation the host called
\* (WallpaperFrame::draw or RenderElement::draw) returns the error.
C13_DrawErrorsPropagated ==
    (op.name \in {"draw", "element_draw"} /\ op.render = "err")
       => op.result = "err"

\* C14 as stated (its safety part): no call of next_id made while fewer than
\* 2^w ids are in use fails to return an id.
C14_NoCallFailsBelowModulus ==
    \A t \in Threads :
       tpc[t] = "panicked" => Cardinality(WALLPAPER_IDS) >= UsizeModulus

\* C14 amended: the in-use set never shrinks; every id next_id returns was
\* not in the set before and is in it after; and every call that holds the
\* lock while fewer than usize::MAX = 2^w - 1 ids are in use returns.
C14_AllocationBelowUsizeMax ==
    /\ [][WALLPAPER_IDS \subseteq WALLPAPER_IDS']_vars
    /\ [][\A t \in Threads :
            Insert(t) => /\ lid[t] \notin WALLPAPER_IDS
                         /\ cid'[t] = lid[t]
                         /\ cid'[t] \in WALLPAPER_IDS']_vars
    /\ [](\A t \in Threads :
            tpc[t] = "panicked" => Cardinality(WALLPAPER_IDS) >= USIZE_MAX)
    /\ \A t \in Threads :
          (tpc[t] = "fetch" /\ Cardinality(WALLPAPER_IDS) < USIZE_MAX)
             ~> (tpc[t] = "done" /\ cid[t] \in WALLPAPER_IDS)

\* C14 witness: in a debug build, the call made with usize::MAX - 1 ids in
\* use has returned the last id the amended claim covers
C14_Witness ==
    /\ debugBuild
    /\ Cardinality(WALLPAPER_IDS) = USIZE_MAX
    /\ \E t \in Threads : tpc[t] = "done" /\ ctor[t] = "new" /\ cid[t] = USIZE_MAX - 1

\* C15: a draw changes at most the texture slot, and only by filling it when
\* it is empty; set changes only the tracked task; run changes the image only
\* by installing the result of the tracked task that ended with success.
C15_FrameConditions ==
    [][/\ \A f \in frames :
             (Draw(f) \/ ElementDraw(f))
                => /\ image' = image
                   /\ join' = join
                   /\ tasks' = tasks
                   /\ frames' = frames
                   /\ cid' = cid
                   /\ texture' = texture \/ texture = NoTexture
       /\ \A p \in {"good", "bad"} :
             Set(p) => /\ image' = image
                       /\ texture' = texture
                       /\ frames' = frames
                       /\ cid' = cid
                       /\ join' # join
       /\ \A a \in Areas, s \in Sizes :
             Run(a, s) => /\ texture' = texture
                          /\ cid' = cid
                          /\ image' # image
                                => /\ join # None
                                   /\ tasks[join].st = "ok"
                                   /\ image' = join]_vars

\* C15 witness: a draw has filled the empty slot while a load was tracked
C15_Witness ==
    /\ op.name = "draw"
    /\ op.upload = "ok"
    /\ texture = <<op.img, op.size>>
    /\ image = op.img
    /\ join # None

\* C16: geometry() of a frame produced for a non-empty area is a non-empty
\* rectangle that covers the area, and z_index() is the same lowest value for
\* every frame.
C16_GeometryCoversArea ==
    \A f \in frames :
       /\ f.area > 0 => geometry(f) >= f.area
       /\ z_index(f) = 0

\* C17: every container that exists, whether built by new() or by Default,
\* has an id that is in WALLPAPER_IDS, and no two containers have the same id.
C17_EveryContainerIdRegistered ==
    /\ \A t \in Threads : tpc[t] = "done" => cid[t] \in WALLPAPER_IDS
    /\ \A s, t \in Threads :
          (s # t /\ tpc[s] = "done" /\ tpc[t] = "done") => cid[s] # cid[t]

\* C18: the texture a draw renders was uploaded from the image of the frame
\* that is drawn.
C18_RenderedTextureIsOfFrameImage ==
    (op.name \in {"draw", "element_draw"} /\ op.quad) => op.tex[1] = op.img

\* C19: the draw that finds the slot empty uploads at the size of its own
\* frame; a draw that finds the slot filled uploads nothing and renders that
\* texture, whatever the size of its frame; a filled slot never changes.
C19_SlotFilledOnceAtFirstSize ==
    [][/\ texture # NoTexture => texture' = texture
       /\ \A f \in frames :
             (Draw(f) \/ ElementDraw(f))
                => /\ (f.image # None /\ texture = NoTexture /\ ~panicked')
                         => texture' = <<f.image, f.size>>
                   /\ (f.image # None /\ texture # NoTexture)
                         => (uploads' = uploads /\ op'.tex = texture /\ ~panicked')]_vars

\* C19 witness: a frame of another target size than the texture's has been
\* drawn with the cached texture
C19_Witness ==
    /\ op.name = "draw"
    /\ op.quad
    /\ op.upload = "none"
    /\ texture # NoTexture
    /\ op.tex = texture
    /\ op.size # texture[2]
    /\ op.img = texture[1]

====
